---- MODULE Spec2Model ----
(***************************************************************************)
(* Fixed-width text justification (justified/justified.py):                *)
(* KnuthPlassFormatter (memoised dynamic program + renderer) and           *)
(* GreedyFormatter.  A string is a sequence of characters; a character is  *)
(* an integer: SP is ' ', NL is '\n', and the characters of the k-th word  *)
(* of a text are all the integer k (k >= 1).  Indices i, j, n, a, b are    *)
(* the 0-based indices of the Python code; words[i:j] is Slice(words,i,j). *)
(***************************************************************************)
EXTENDS Integers, Sequences, FiniteSets, TLC

\* ---- bounds of the model ----
MaxTextLen == 9
MaxWidth == 5
MaxXWidth == 7

\* ---- characters and float('inf') ----
SP == 0
NL == -1
Inf == -2

VARIABLES kind, width, words, memo, parent, stack, ret, a, b,
          lines, cur_line, widx, rendered, out, xcall, pc, reused

vars == <<kind, width, words, memo, parent, stack, ret, a, b,
          lines, cur_line, widx, rendered, out, xcall, pc, reused>>

\* ---- strings ----
IsSpace(c) == c = SP \/ c = NL

RECURSIVE SplitFrom(_, _, _, _)
SplitFrom(s, k, cur, acc) ==
    IF k > Len(s)
    THEN IF cur = <<>> THEN acc ELSE Append(acc, cur)
    ELSE IF IsSpace(s[k])
         THEN SplitFrom(s, k + 1, <<>>, IF cur = <<>> THEN acc ELSE Append(acc, cur))
         ELSE SplitFrom(s, k + 1, Append(cur, s[k]), acc)

\* str.split(): split on runs of whitespace, no empty tokens
Split(s) == SplitFrom(s, 1, <<>>, <<>>)

RECURSIVE Join(_, _)
Join(sep, ss) ==
    IF ss = <<>> THEN <<>>
    ELSE IF Len(ss) = 1 THEN ss[1]
    ELSE ss[1] \o sep \o Join(sep, Tail(ss))

RECURSIVE Spaces(_)
Spaces(g) == IF g <= 0 THEN <<>> ELSE <<SP>> \o Spaces(g - 1)

Slice(ws, i, j) == SubSeq(ws, i + 1, IF j < Len(ws) THEN j ELSE Len(ws))

packed(ws) == Join(<<SP>>, ws)

\* ---- costs: non-negative integers and Inf ----
Add(x, y) == IF x = Inf \/ y = Inf THEN Inf ELSE x + y

Lt(x, y) == x # Inf /\ (y = Inf \/ x < y)

\* ---- expanded(words, width) ----
\* variant: the index is never advanced, all padding goes to the first gap
RECURSIVE Fill_first(_, _, _)
Fill_first(gaps, idx, space_left) ==
    IF space_left = 0 THEN gaps
    ELSE Fill_first([gaps EXCEPT ![idx] = @ + 1], idx, space_left - 1)

RECURSIVE Fill(_, _, _)
Fill(gaps, idx, space_left) ==
    IF space_left = 0 THEN gaps
    ELSE Fill([gaps EXCEPT ![idx] = @ + 1],
              IF idx = Len(gaps) THEN 1 ELSE idx + 1,
              space_left - 1)

RECURSIVE Hash(_)
Hash(s) == IF s = <<>> THEN 0 ELSE Head(s) * Len(s) + Hash(Tail(s))

RandBelow(seed, i, m) == (Hash(seed) \div (i + 1) + i) % m

Swap(x, p, q) == [x EXCEPT ![p] = x[q], ![q] = x[p]]

RECURSIVE ShuffleFrom(_, _, _)
ShuffleFrom(x, i, seed) ==
    IF i < 1 THEN x
    ELSE ShuffleFrom(Swap(x, i + 1, RandBelow(seed, i, i + 1) + 1), i - 1, seed)

\* Random(seed).shuffle(x)
Shuffle(x, seed) == ShuffleFrom(x, Len(x) - 1, seed)

\* variant: "word + space" loses the space
RECURSIVE Zip_nogap(_, _)
Zip_nogap(ws, gaps) ==
    IF ws = <<>> \/ gaps = <<>> THEN <<>>
    ELSE Head(ws) \o Zip_nogap(Tail(ws), Tail(gaps))

RECURSIVE Zip(_, _)
Zip(ws, gaps) ==
    IF ws = <<>> \/ gaps = <<>> THEN <<>>
    ELSE Head(ws) \o Spaces(Head(gaps)) \o Zip(Tail(ws), Tail(gaps))

\* does the "while space_left" loop of expanded exit?
expandedReturns(ws, w) ==
    LET space_left == w - Len(Join(<<>>, ws))
    IN  Len(ws) = 1 \/ space_left = 0 \/ (space_left > 0 /\ Len(ws) >= 2)

\* variant: the line is packed, not padded
expanded_unpadded(ws, w) == packed(ws)

expanded(ws, w) ==
    IF Len(ws) = 1 THEN ws[1]
    ELSE LET unspaced_words == Join(<<>>, ws)
             space_left == w - Len(unspaced_words)
             gaps0 == [k \in 1..(Len(ws) - 1) |-> 0]
             gaps1 == Fill(gaps0, 1, space_left)
             gaps == Append(Shuffle(gaps1, unspaced_words), 0)
         IN  Zip(ws, gaps)

\* ---- badness(i, j) ----
badnessOf(ws, w, i, j) ==
    LET length == Len(packed(Slice(ws, i, j)))
    IN  IF length > w THEN Inf ELSE (w - length) * (w - length) * (w - length)

badness(i, j) == badnessOf(words, width, i, j)

\* variant: "<" for "<=" in the base case
IsLastLineOf_strict(ws, w, i, j) == j = Len(ws) /\ Len(packed(Slice(ws, i, j))) < w

\* the test of best_break's base case: words[i:j] is the last line and fits
IsLastLineOf(ws, w, i, j) == j = Len(ws) /\ Len(packed(Slice(ws, i, j))) <= w

\* min(vals, key=lambda pair: pair[0]): the first pair of least key
RECURSIVE MinFrom(_, _, _)
MinFrom(vals, k, best) ==
    IF k > Len(vals) THEN best
    ELSE MinFrom(vals, k + 1, IF Lt(vals[k][1], best[1]) THEN vals[k] ELSE best)

\* variant: min keyed on the position pair[1]; vals is in descending position
MinPair_keyIdx(vals) == vals[Len(vals)]

\* variant: the last pair of least key wins
RECURSIVE MinFrom_le(_, _, _)
MinFrom_le(vals, k, best) ==
    IF k > Len(vals) THEN best
    ELSE MinFrom_le(vals, k + 1, IF ~Lt(best[1], vals[k][1]) THEN vals[k] ELSE best)

MinPair_lastMin(vals) == MinFrom_le(vals, 2, vals[1])

MinPair(vals) == MinFrom(vals, 2, vals[1])

\* ---- inputs ----
EmptyMap == [x \in {} |-> 0]

Put(m, k, v) == (k :> v) @@ m

\* the word-length sequences of the texts whose packed length is <= budget
RECURSIVE LenSeqsWithin(_)
LenSeqsWithin(budget) ==
    {<<l>> : l \in 1..budget}
        \cup UNION {{<<l>> \o t : t \in LenSeqsWithin(budget - l - 1)} : l \in 1..(budget - 2)}

LenSeqs == {<<>>} \cup LenSeqsWithin(MaxTextLen)

MkWords(lens) == [k \in 1..Len(lens) |-> [m \in 1..lens[k] |-> k]]

MkText(lens, pad) ==
    IF pad THEN <<SP>> \o Join(<<SP, NL>>, MkWords(lens)) \o <<NL>>
    ELSE packed(MkWords(lens))

Frame(i, j) == [i |-> i, j |-> j, n |-> j - 1, vals |-> <<>>, pc |-> "enter"]

Top == stack[Len(stack)]

Pop == SubSeq(stack, 1, Len(stack) - 1)

SetTop(f) == [stack EXCEPT ![Len(stack)] = f]

\* where format goes once best_break(0, N) has returned: wrapped_lines reads
\* self._parent[0]
AfterReturn(par) == IF 0 \in DOMAIN par THEN "render" ELSE "raised"

Init ==
    /\ kind \in {"kp", "greedy"}
    /\ width \in 0..MaxWidth
    /\ words = <<>>
    /\ memo = EmptyMap
    /\ parent = EmptyMap
    /\ stack = <<>>
    /\ ret = 0
    /\ a = 0
    /\ b = 0
    /\ lines = <<>>
    /\ cur_line = <<>>
    /\ widx = 0
    /\ rendered = <<>>
    /\ out = <<>>
    /\ xcall = <<>>
    /\ pc = "idle"
    /\ reused = FALSE

\* variant: format without "self._memo = {}"
FormatStart_keepMemo ==
    /\ pc \in {"idle", "done"}
    /\ \E lens \in LenSeqs, pad \in BOOLEAN :
          words' = Split(MkText(lens, pad))
    /\ parent' = EmptyMap
    /\ stack' = IF kind = "kp" THEN <<Frame(0, Len(words'))>> ELSE <<>>
    /\ pc' = IF kind = "kp" THEN "best_break" ELSE "greedy"
    /\ lines' = <<>>
    /\ cur_line' = <<>>
    /\ widx' = 0
    /\ ret' = 0
    /\ a' = 0
    /\ b' = 0
    /\ rendered' = <<>>
    /\ out' = <<>>
    /\ xcall' = <<>>
    /\ reused' = (pc = "done")
    /\ UNCHANGED <<kind, width, memo>>

\* format(text), up to the call of best_break / the start of the greedy loop
FormatStart ==
    /\ pc \in {"idle", "done"}
    /\ \E lens \in LenSeqs, pad \in BOOLEAN :
          words' = Split(MkText(lens, pad))
    /\ memo' = EmptyMap
    /\ parent' = EmptyMap
    /\ stack' = IF kind = "kp" THEN <<Frame(0, Len(words'))>> ELSE <<>>
    /\ pc' = IF kind = "kp" THEN "best_break" ELSE "greedy"
    /\ lines' = <<>>
    /\ cur_line' = <<>>
    /\ widx' = 0
    /\ ret' = 0
    /\ a' = 0
    /\ b' = 0
    /\ rendered' = <<>>
    /\ out' = <<>>
    /\ xcall' = <<>>
    /\ reused' = (pc = "done")
    /\ UNCHANGED <<kind, width>>

\* best_break(i, j): memo lookup, base case, or entry of the general case
BBEnter ==
    /\ pc = "best_break"
    /\ Top.pc = "enter"
    /\ LET i == Top.i
           j == Top.j
       IN  IF <<i, j>> \in DOMAIN memo
           THEN /\ ret' = memo[<<i, j>>]
                /\ stack' = Pop
                /\ pc' = IF stack' = <<>> THEN AfterReturn(parent) ELSE pc
                /\ UNCHANGED <<memo, parent>>
           ELSE IF IsLastLineOf(words, width, i, j)
           THEN /\ memo' = Put(memo, <<i, j>>, 0)
                /\ parent' = Put(parent, i, j)
                /\ ret' = 0
                /\ stack' = Pop
                /\ pc' = IF stack' = <<>> THEN AfterReturn(parent') ELSE pc
           ELSE IF i >= j
           THEN \* min() of an empty list raises ValueError
                /\ pc' = "raised"
                /\ UNCHANGED <<memo, parent, ret, stack>>
           ELSE /\ stack' = SetTop([Top EXCEPT !.pc = "loop", !.n = j - 1, !.vals = <<>>])
                /\ UNCHANGED <<memo, parent, ret, pc>>
    /\ a' = 0
    /\ b' = IF pc' = "render" THEN parent'[0] ELSE 0
    /\ UNCHANGED <<kind, width, words, lines, cur_line, widx, rendered, out, xcall, reused>>

\* one iteration of "for n in reversed(range(i, j))": the recursive call
BBCall ==
    /\ pc = "best_break"
    /\ Top.pc = "loop"
    /\ Top.n >= Top.i
    /\ stack' = Append(SetTop([Top EXCEPT !.pc = "wait"]), Frame(Top.n + 1, Top.j))
    /\ UNCHANGED <<kind, width, words, memo, parent, ret, a, b,
                   lines, cur_line, widx, rendered, out, xcall, pc, reused>>

\* variant: the candidate is recorded as (total_badness, n)
BBResume_offByOne ==
    /\ pc = "best_break"
    /\ Top.pc = "wait"
    /\ LET total_badness == Add(badness(Top.i, Top.n + 1), ret)
       IN  stack' = SetTop([Top EXCEPT !.pc = "loop",
                                       !.n = Top.n - 1,
                                       !.vals = Append(Top.vals, <<total_badness, Top.n>>)])
    /\ UNCHANGED <<kind, width, words, memo, parent, ret, a, b,
                   lines, cur_line, widx, rendered, out, xcall, pc, reused>>

\* ... and the append of (total_badness, n + 1) once the call has returned
BBResume ==
    /\ pc = "best_break"
    /\ Top.pc = "wait"
    /\ LET total_badness == Add(badness(Top.i, Top.n + 1), ret)
       IN  stack' = SetTop([Top EXCEPT !.pc = "loop",
                                       !.n = Top.n - 1,
                                       !.vals = Append(Top.vals, <<total_badness, Top.n + 1>>)])
    /\ UNCHANGED <<kind, width, words, memo, parent, ret, a, b,
                   lines, cur_line, widx, rendered, out, xcall, pc, reused>>

\* choose the break with the minimum total badness, record it, return
BBChoose ==
    /\ pc = "best_break"
    /\ Top.pc = "loop"
    /\ Top.n < Top.i
    /\ LET best == MinPair(Top.vals)
       IN  /\ memo' = Put(memo, <<Top.i, Top.j>>, best[1])
           /\ parent' = Put(parent, Top.i, best[2])
           /\ ret' = best[1]
    /\ stack' = Pop
    /\ pc' = IF stack' = <<>> THEN AfterReturn(parent') ELSE pc
    /\ a' = 0
    /\ b' = IF pc' = "render" THEN parent'[0] ELSE 0
    /\ UNCHANGED <<kind, width, words, lines, cur_line, widx, rendered, out, xcall, reused>>

\* KnuthPlassFormatter.wrapped_lines: one turn of the "while True" loop;
\* the last turn also joins the lines (format's return value)
WrappedLinesStep ==
    /\ pc = "render"
    /\ LET ws == Slice(words, a, b)
       IN  IF b = Len(words)
           THEN /\ rendered' = Append(rendered, packed(ws))
                /\ out' = Join(<<NL>>, rendered')
                /\ pc' = "done"
                /\ UNCHANGED <<a, b>>
           ELSE IF ~expandedReturns(ws, width)
           THEN /\ pc' = "hung"
                /\ UNCHANGED <<rendered, out, a, b>>
           ELSE IF b \notin DOMAIN parent
           THEN /\ rendered' = Append(rendered, expanded(ws, width))
                /\ pc' = "raised"
                /\ UNCHANGED <<out, a, b>>
           ELSE /\ rendered' = Append(rendered, expanded(ws, width))
                /\ a' = b
                /\ b' = parent[b]
                /\ UNCHANGED <<out, pc>>
    /\ UNCHANGED <<kind, width, words, memo, parent, stack, ret,
                   lines, cur_line, widx, xcall, reused>>

\* GreedyFormatter.format: one turn of "for word in self.words"
GreedyWord ==
    /\ pc = "greedy"
    /\ widx < Len(words)
    /\ LET word == words[widx + 1]
           tmp == Append(cur_line, word)
       IN  IF Len(packed(tmp)) <= width
           THEN /\ cur_line' = tmp
                /\ UNCHANGED lines
           ELSE /\ lines' = Append(lines, cur_line)
                /\ cur_line' = <<word>>
    /\ widx' = widx + 1
    /\ UNCHANGED <<kind, width, words, memo, parent, stack, ret, a, b,
                   rendered, out, xcall, pc, reused>>

\* GreedyFormatter.format: "if cur_line: self.lines.append(cur_line)"
GreedyClose ==
    /\ pc = "greedy"
    /\ widx = Len(words)
    /\ lines' = IF cur_line # <<>> THEN Append(lines, cur_line) ELSE lines
    /\ pc' = "grender"
    /\ widx' = 0
    /\ UNCHANGED <<kind, width, words, memo, parent, stack, ret, a, b,
                   cur_line, rendered, out, xcall, reused>>

\* GreedyFormatter.wrapped_lines: one turn of the loop over self.lines
GreedyRender ==
    /\ pc = "grender"
    /\ LET last == Len(lines) - 1
       IN  IF widx > last
           THEN /\ out' = Join(<<NL>>, rendered)
                /\ pc' = "done"
                /\ UNCHANGED <<rendered, widx>>
           ELSE IF widx = last
           THEN /\ rendered' = Append(rendered, packed(lines[widx + 1]))
                /\ out' = Join(<<NL>>, rendered')
                /\ pc' = "done"
                /\ UNCHANGED widx
           ELSE IF ~expandedReturns(lines[widx + 1], width)
           THEN /\ pc' = "hung"
                /\ UNCHANGED <<rendered, out, widx>>
           ELSE /\ rendered' = Append(rendered, expanded(lines[widx + 1], width))
                /\ widx' = widx + 1
                /\ UNCHANGED <<out, pc>>
    /\ UNCHANGED <<kind, width, words, memo, parent, stack, ret, a, b,
                   lines, cur_line, xcall, reused>>

\* a direct call expanded(words, width) on a fresh formatter
ExpandedCall ==
    /\ pc = "idle"
    /\ \E lens \in LenSeqs, w \in 0..MaxXWidth :
          /\ xcall' = <<MkWords(lens), w>>
          /\ IF expandedReturns(MkWords(lens), w)
             THEN /\ out' = expanded(MkWords(lens), w)
                  /\ pc' = "expanded"
             ELSE /\ out' = <<>>
                  /\ pc' = "hung"
    /\ UNCHANGED <<kind, width, words, memo, parent, stack, ret, a, b,
                   lines, cur_line, widx, rendered, reused>>

Next ==
    \/ FormatStart
    \/ BBEnter
    \/ BBCall
    \/ BBResume
    \/ BBChoose
    \/ WrappedLinesStep
    \/ GreedyWord
    \/ GreedyClose
    \/ GreedyRender
    \/ ExpandedCall

Spec == Init /\ [][Next]_vars

\* the steps inside one call; a call that has started runs until it returns
Step ==
    \/ BBEnter
    \/ BBCall
    \/ BBResume
    \/ BBChoose
    \/ WrappedLinesStep
    \/ GreedyWord
    \/ GreedyClose
    \/ GreedyRender

FairSpec == Spec /\ WF_vars(Step)

\* ---- a freshly constructed KnuthPlassFormatter, as a function of the text ----
RECURSIVE FreshBest(_, _, _)
FreshBest(ws, w, i) ==
    LET N == Len(ws)
    IN  IF IsLastLineOf(ws, w, i, N) THEN <<0, N>>
        ELSE MinPair([k \in 1..(N - i) |->
                 <<Add(badnessOf(ws, w, i, N - k + 1), FreshBest(ws, w, N - k + 1)[1]),
                   N - k + 1>>])

RECURSIVE FreshLines(_, _, _)
FreshLines(ws, w, i) ==
    LET p == FreshBest(ws, w, i)[2]
    IN  IF p = Len(ws) THEN <<packed(Slice(ws, i, p))>>
        ELSE <<expanded(Slice(ws, i, p), w)>> \o FreshLines(ws, w, p)

FreshFormat(ws, w) == Join(<<NL>>, FreshLines(ws, w, 0))

\* ---- vocabulary of the properties ----
N == Len(words)

\* a format call has been made on the instance
InCall == xcall = <<>> /\ pc # "idle"

\* this step is the start of a format call
CallStart == pc \in {"idle", "done"} /\ pc' \in {"best_break", "greedy"}

KPDone == kind = "kp" /\ pc = "done"

RECURSIVE SplitOnFrom(_, _, _, _, _)
SplitOnFrom(s, c, k, cur, acc) ==
    IF k > Len(s) THEN Append(acc, cur)
    ELSE IF s[k] = c THEN SplitOnFrom(s, c, k + 1, <<>>, Append(acc, cur))
    ELSE SplitOnFrom(s, c, k + 1, Append(cur, s[k]), acc)

\* the lines of the output: out.split('\n')
OutLines == SplitOnFrom(out, NL, 1, <<>>, <<>>)

\* the spans of words obtained by following _parent from 0 to N
RECURSIVE ChainFrom(_)
ChainFrom(i) ==
    IF parent[i] >= N \/ parent[i] <= i THEN <<Slice(words, i, parent[i])>>
    ELSE <<Slice(words, i, parent[i])>> \o ChainFrom(parent[i])

ChainLines == ChainFrom(0)

\* lengths of the runs of spaces between the words of a line
RECURSIVE GapsFrom(_, _, _, _)
GapsFrom(s, k, run, acc) ==
    IF k > Len(s) THEN IF run > 0 THEN Append(acc, run) ELSE acc
    ELSE IF s[k] = SP THEN GapsFrom(s, k + 1, run + 1, acc)
    ELSE GapsFrom(s, k + 1, 0, IF run > 0 THEN Append(acc, run) ELSE acc)

Gaps(s) == GapsFrom(s, 1, 0, <<>>)

RECURSIVE SumSeq(_)
SumSeq(q) == IF q = <<>> THEN 0 ELSE Head(q) + SumSeq(Tail(q))

Oversized == {k \in 1..N : Len(words[k]) > width}

\* cost of the line words[x:y] in the shortest-path problem: the line that
\* ends the text and fits is free
LineCost(x, y) ==
    IF y = N /\ Len(packed(Slice(words, x, y))) <= width THEN 0 ELSE badness(x, y)

\* a way of cutting words[0:N] into non-empty lines: the set S of interior
\* break positions
Ends(S) == IF N = 0 THEN {} ELSE S \cup {N}

StartOf(S, e) == LET below == {q \in S \cup {0} : q < e}
                 IN  CHOOSE q \in below : \A r \in below : r <= q

RECURSIVE CutCostOver(_, _)
CutCostOver(S, E) ==
    IF E = {} THEN 0
    ELSE LET e == CHOOSE x \in E : TRUE
         IN  Add(LineCost(StartOf(S, e), e), CutCostOver(S, E \ {e}))

CutCost(S) == CutCostOver(S, Ends(S))

AllCuts == SUBSET (1..(N - 1))

MinCost == LET costs == {CutCost(S) : S \in AllCuts}
           IN  CHOOSE c \in costs : \A d \in costs : ~Lt(d, c)

RECURSIVE ChainCost(_)
ChainCost(i) ==
    IF i >= N THEN 0
    ELSE IF i \notin DOMAIN parent \/ parent[i] <= i THEN Inf - 1
    ELSE Add(LineCost(i, parent[i]), ChainCost(parent[i]))

\* ---- C1 ----
\* C1 (as stated): every line of the output of KnuthPlassFormatter.format
\* other than the final line has length exactly width.
C1_EveryNonFinalLineFills ==
    KPDone => \A k \in 1..(Len(OutLines) - 1) : Len(OutLines[k]) = width

\* C1 (amended): every non-final output line that holds at least two words
\* has length exactly width; a non-final line of one word is emitted
\* unpadded.
C1_MultiWordNonFinalLineFills ==
    KPDone =>
        /\ Len(OutLines) = Len(ChainLines)
        /\ \A k \in 1..(Len(OutLines) - 1) :
              IF Len(ChainLines[k]) >= 2
              THEN Len(OutLines[k]) = width
              ELSE OutLines[k] = ChainLines[k][1]

\* a finished call with a non-final line of two or more words that needed
\* extra padding, and a non-final line of one word shorter than width
C1_Witness ==
    /\ KPDone
    /\ \E k \in 1..(Len(OutLines) - 1) :
          Len(ChainLines[k]) >= 2 /\ Len(packed(ChainLines[k])) < width
    /\ \E k \in 1..(Len(OutLines) - 1) :
          Len(ChainLines[k]) = 1 /\ Len(OutLines[k]) < width

\* ---- C2 ----
\* C2: best_break(0, N) returns the minimum over all cuttings of words[0:N]
\* into non-empty lines of the summed line costs (the fitting last line is
\* free), and the _parent chain from 0 to N achieves that minimum.
C2_BestBreakIsMinimum ==
    (kind = "kp" /\ InCall) =>
        /\ pc # "raised"
        /\ pc \in {"render", "done"} => (ret = MinCost /\ ChainCost(0) = MinCost)

\* best_break has returned a finite, non-zero optimum over at least three
\* lines
C2_Witness ==
    /\ KPDone
    /\ ret = MinCost
    /\ ret # Inf
    /\ ret > 0
    /\ Len(ChainLines) >= 3

\* ---- C3 ----
\* C3: format returns; splitting its output on whitespace gives back the
\* word sequence; the output lines are the spans of the _parent chain.
C3_RetokenizeRoundTrip ==
    (kind = "kp" /\ InCall) =>
        /\ pc \notin {"hung", "raised"}
        /\ pc = "done" =>
              /\ Split(out) = words
              /\ [k \in 1..Len(OutLines) |-> Split(OutLines[k])] = ChainLines

\* a finished call of three output lines, one of them a padded line of two
\* words
C3_Witness ==
    /\ KPDone
    /\ Len(OutLines) >= 3
    /\ Split(out) = words
    /\ \E k \in 1..(Len(OutLines) - 1) :
          Len(ChainLines[k]) = 2 /\ Len(OutLines[k]) > Len(packed(ChainLines[k]))

\* ---- C4 ----
\* C4: with a word longer than width in the text, format returns and the
\* oversized word is the only word on its output line.
C4_OversizedWordAlone ==
    (kind = "kp" /\ InCall /\ Oversized # {}) =>
        /\ pc \notin {"hung", "raised"}
        /\ pc = "done" =>
              \A k \in Oversized :
                  \E l \in 1..Len(OutLines) : Split(OutLines[l]) = <<words[k]>>

\* ---- C5 ----
\* C5: GreedyFormatter.format returns for every text and every positive
\* width: every line closed into self.lines is non-empty and every call of
\* expanded returns.
C5_GreedyReturns ==
    (kind = "greedy" /\ InCall /\ width > 0) =>
        /\ pc # "hung"
        /\ \A l \in 1..Len(lines) : lines[l] # <<>>

\* ---- C6 ----
\* C6: a format call on a text of zero words, for either formatter and any
\* width >= 0, returns the empty string without raising.
C6_EmptyTextReturnsEmpty ==
    (words = <<>> /\ pc \in {"best_break", "greedy"})
        ~> (words = <<>> /\ pc = "done" /\ out = <<>>)

\* both formatters have returned from a call on a text without words
C6_Witness ==
    /\ InCall
    /\ words = <<>>
    /\ pc = "done"
    /\ out = <<>>
    /\ kind = "greedy" => lines = <<>>
    /\ kind = "kp" => 0 \in DOMAIN parent

\* ---- C7 ----
\* C7: for at least two words whose packed length is <= width,
\* expanded(words, width) returns exactly width characters, the words in
\* order, and width - (sum of word lengths) spaces over the len(words) - 1
\* gaps, each gap >= 1 and any two gaps differing by at most one.
C7_ExpandedEvenSplit ==
    (xcall # <<>> /\ Len(xcall[1]) >= 2 /\ Len(packed(xcall[1])) <= xcall[2]) =>
        LET ws == xcall[1]
            w == xcall[2]
            g == Gaps(out)
            total == w - Len(Join(<<>>, ws))
            q == total \div (Len(ws) - 1)
            r == total % (Len(ws) - 1)
        IN  /\ pc = "expanded"
            /\ Len(out) = w
            /\ Split(out) = ws
            /\ out[1] # SP /\ out[Len(out)] # SP
            /\ Len(g) = Len(ws) - 1
            /\ SumSeq(g) = total
            /\ \A k \in 1..Len(g) : g[k] >= 1 /\ g[k] \in {q, q + 1}
            /\ Cardinality({k \in 1..Len(g) : g[k] = q + 1}) = r

\* expanded has returned a line whose gaps are uneven and not in the
\* left-to-right order of the round-robin fill
C7_Witness ==
    /\ xcall # <<>>
    /\ pc = "expanded"
    /\ Len(xcall[1]) >= 3
    /\ Len(packed(xcall[1])) <= xcall[2]
    /\ \E k \in 1..(Len(Gaps(out)) - 1) : Gaps(out)[k] < Gaps(out)[k + 1]

\* ---- C8 ----
Total(i, p) == Add(badness(i, p), memo[<<p, N>>])

Minimizers(i) ==
    {p \in (i + 1)..N : \A q \in (i + 1)..N : ~Lt(Total(i, q), Total(i, p))}

\* C8: in the general case, _parent[i] is the largest position among those
\* minimizing badness(i, p) + best_break(p, N), also when all totals are
\* infinite.
C8_TiesPreferLaterBreak ==
    (kind = "kp" /\ InCall) =>
        \A i \in DOMAIN parent :
            (i < N /\ ~IsLastLineOf(words, width, i, N)) =>
                /\ parent[i] \in Minimizers(i)
                /\ \A p \in Minimizers(i) : p <= parent[i]

\* a general-case entry recorded on a tie between two finite totals
C8_Witness ==
    /\ kind = "kp"
    /\ InCall
    /\ \E i \in DOMAIN parent :
          /\ i < N
          /\ ~IsLastLineOf(words, width, i, N)
          /\ Cardinality(Minimizers(i)) >= 2
          /\ Total(i, parent[i]) # Inf
          /\ parent[i] < N

\* ---- C9 ----
\* C9 (as stated): every populated entry satisfies i < _parent[i] <= N.
C9_EveryEntryForward ==
    \A i \in DOMAIN parent : i < parent[i] /\ parent[i] <= N

\* C9 (amended): every populated entry for a key i < N satisfies
\* i < _parent[i] <= N; the only other key best_break writes is N (the
\* empty suffix), and _parent[N] = N.
C9_EntriesBelowNForward ==
    \A i \in DOMAIN parent :
        /\ i \in 0..N
        /\ i < N => (i < parent[i] /\ parent[i] <= N)
        /\ i = N => parent[i] = N

\* during a call: an entry that breaks before the end of the text, next to
\* the entry of the empty suffix
C9_Witness ==
    /\ kind = "kp"
    /\ pc = "best_break"
    /\ N \in DOMAIN parent
    /\ \E i \in DOMAIN parent : i < N /\ parent[i] < N

\* ---- C10 ----
\* C10: every format call starts with empty _memo and _parent, a _memo entry
\* once written is not changed during the call, and the returned string is
\* the one a fresh formatter of the same width returns for the same text.
C10_NoCrossCallState ==
    /\ [][CallStart => (memo' = EmptyMap /\ parent' = EmptyMap)]_vars
    /\ [][~CallStart =>
             \A k \in DOMAIN memo : k \in DOMAIN memo' /\ memo'[k] = memo[k]]_vars
    /\ [](kind = "kp" /\ InCall => pc # "raised")
    /\ [](KPDone => out = FreshFormat(words, width))

\* the second call on one instance has returned a text of several lines
C10_Witness ==
    /\ KPDone
    /\ reused
    /\ Len(OutLines) >= 2
    /\ Cardinality(DOMAIN memo) >= 3
====
